---- MODULE Spec2Model ----
(***************************************************************************)
(* Model of railway_deployment.py: the Flask service that stages an        *)
(* uploaded document in a temporary file, extracts its text                *)
(* (RegulatoryAnalyzer.parse_file), sends it to the LLM                    *)
(* (RegulatoryAnalyzer.analyze_document) and shapes the JSON response, for *)
(* POST /analyze and POST /batch-analyze, plus the small routes and the    *)
(* error handlers.                                                         *)
(*                                                                         *)
(* A text is a sequence of runs [ch, n] (n > 0, adjacent runs of different *)
(* characters): "xxx  " is <<[ch |-> "x", n |-> 3], [ch |-> " ", n |-> 2]>>.*)
(* A JSON value is a tagged record; a JSON object is a TLA+ function from  *)
(* its keys.  An exception is a value [ok |-> FALSE, err |-> ...].         *)
(***************************************************************************)
EXTENDS Integers, Sequences, FiniteSets, TLC

VARIABLES pc, req, files, tmpPath, tmpFile, text, prompt, llmReply, results, idx, resp,
          analysis, steps, log

vars == <<pc, req, files, tmpPath, tmpFile, text, prompt, llmReply, results, idx, resp,
          analysis, steps, log>>

\* --------------------------------------------------- constants and bounds

\* document_text[:15000]
PromptLimit == 15000

\* Length of a short document body.
ShortLen == 3
\* Characters of the long document beyond the prompt limit.
Overflow == 2
\* Longest documents array of a batch request.
MaxDocs == 2
\* Temporary files the disk holds at most (leaked ones included).
MaxFiles == 2

\* JSON null, Python None.
None == [t |-> "null"]

\* ------------------------------------------------------------------- texts

Whitespace == {" ", "\n"}

Run(c, k) == IF k = 0 THEN <<>> ELSE <<[ch |-> c, n |-> k]>>

RECURSIVE TextLen(_)
\* len(document_text)
TextLen(t) == IF t = <<>> THEN 0 ELSE t[1].n + TextLen(Tail(t))

RECURSIVE Slice(_, _)
\* document_text[:k]
Slice(t, k) ==
    IF t = <<>> \/ k <= 0 THEN <<>>
    ELSE IF t[1].n <= k THEN <<t[1]>> \o Slice(Tail(t), k - t[1].n)
    ELSE Run(t[1].ch, k)

\* text += other
Concat(a, b) ==
    IF a = <<>> THEN b
    ELSE IF b = <<>> THEN a
    ELSE IF a[Len(a)].ch = b[1].ch
         THEN SubSeq(a, 1, Len(a) - 1)
              \o Run(b[1].ch, a[Len(a)].n + b[1].n)
              \o Tail(b)
         ELSE a \o b

\* not document_text.strip()
IsBlank(t) == \A i \in 1..Len(t) : t[i].ch \in Whitespace

\* ------------------------------------------------------- values and errors

Ok(v) == [ok |-> TRUE, v |-> v]
\* A raised exception; err is its message, str(e).
Raise(e) == [ok |-> FALSE, err |-> e]

\* b""
EmptyFile == [fmt |-> "txt", units |-> << <<>> >>]

JNum(k) == [t |-> "num", n |-> k]
JArr(a) == [t |-> "arr", a |-> a]
JObj(o) == [t |-> "obj", o |-> o]
\* A JSON string holding base64 text: empty is "", wellformed says whether
\* base64.b64decode accepts it, data is what it decodes to.
JB64(e, w, d) == [t |-> "str", b64 |-> [empty |-> e, wellformed |-> w, data |-> d]]
\* A JSON string holding a file name, split at its dots: "r.v2.PDF" is
\* <<"r", ".v2", ".PDF">>, "" is <<>>.
JName(parts) == [t |-> "str", name |-> parts]

\* Python truthiness of a JSON value (`not x`).
Truthy(v) ==
    CASE v.t = "null" -> FALSE
      [] v.t = "num" -> v.n # 0
      [] v.t = "arr" -> v.a # <<>>
      [] v.t = "obj" -> DOMAIN v.o # {}
      [] v.t = "str" -> IF "name" \in DOMAIN v THEN v.name # <<>> ELSE ~v.b64.empty

\* dict.get(key): None when the key is absent.
Get(o, k) == IF k \in DOMAIN o THEN o[k] ELSE None

\* A plausible slip: the object is replaced instead of extended.
SetKey_Replace(o, k, v) == [x \in {k} |-> v]

\* dict[key] = value
SetKey(o, k, v) == [x \in DOMAIN o \cup {k} |-> IF x = k THEN v ELSE o[x]]

\* A plausible slip: the decoding error is swallowed.
b64decode_Lenient(v) ==
    IF v.t # "str" \/ "b64" \notin DOMAIN v THEN Ok(EmptyFile) ELSE Ok(v.b64.data)

\* base64.b64decode(v): TypeError for a non-string, binascii.Error for
\* incorrect padding, the decoded bytes otherwise.
b64decode(v) ==
    IF v.t # "str" \/ "b64" \notin DOMAIN v THEN Raise("TypeError")
    ELSE IF ~v.b64.wellformed THEN Raise("binascii.Error")
    ELSE Ok(v.b64.data)

\* Path(file_name).suffix: TypeError for a non-string, else the last dotted
\* part, "" when there is none.
PathSuffix(v) ==
    IF v.t # "str" \/ "name" \notin DOMAIN v THEN Raise("TypeError")
    ELSE Ok(IF Len(v.name) > 1 THEN v.name[Len(v.name)] ELSE "")

\* str.lower() on the suffixes in use.
Lower(s) ==
    CASE s = ".PDF" -> ".pdf"
      [] s = ".TXT" -> ".txt"
      [] s = ".Docx" -> ".docx"
      [] OTHER -> s

\* -------------------------------------------------------------- extraction

\* File bytes: fmt is what the bytes are ("txt": UTF-8 text that is neither
\* a PDF nor a zip, "pdf", "docx", "bin": anything else), units the page
\* texts, paragraph texts, or the one text.
Bytes(f, u) == [fmt |-> f, units |-> u]

RECURSIVE JoinLines(_)
\* for unit in units: text += unit + "\n"
JoinLines(units) ==
    IF units = <<>> THEN <<>>
    ELSE Concat(Concat(units[1], Run("\n", 1)), JoinLines(Tail(units)))

_parse_pdf(data) ==
    IF data.fmt = "pdf" THEN Ok(JoinLines(data.units)) ELSE Raise("PdfReadError")

_parse_docx(data) ==
    IF data.fmt = "docx" THEN Ok(JoinLines(data.units)) ELSE Raise("PackageNotFoundError")

_parse_txt(data) ==
    IF data.fmt = "txt" THEN Ok(data.units[1]) ELSE Raise("UnicodeDecodeError")

\* RegulatoryAnalyzer.parse_file on a staged file [suffix, data].
parse_file(file) ==
    LET sfx == Lower(file.suffix) IN
    IF sfx = ".pdf" THEN _parse_pdf(file.data)
    ELSE IF sfx = ".docx" THEN _parse_docx(file.data)
    ELSE IF sfx = ".txt" THEN _parse_txt(file.data)
    ELSE Raise("Unsupported file type")

\* ---------------------------------------------------------------- analysis

\* A plausible slip: the whole text is embedded.
PromptText_Whole(t) == t

\* The document text embedded in analysis_prompt.
PromptText(t) == Slice(t, PromptLimit)

\* json.loads of the model's reply text.
json_loads(reply) ==
    IF reply.t = "text" THEN Raise("JSONDecodeError")
    ELSE IF reply.t = "arr" THEN Ok(JArr(<<>>))
    ELSE Ok(JObj(reply.o))

\* RegulatoryAnalyzer.analyze_document once the LLM call has ended with
\* `reply` ("raise": messages.create raised) at time `now`.
analyzer_analyze_document(t, reply, now) ==
    IF reply.t = "raise" THEN Raise("APIError")
    ELSE LET parsed == json_loads(reply) IN
         IF ~parsed.ok THEN parsed
         ELSE IF parsed.v.t # "obj" THEN Raise("TypeError")
         ELSE Ok(SetKey(SetKey(parsed.v.o, "analysis_timestamp", now),
                        "document_length", TextLen(t)))

\* ------------------------------------------------------------------ inputs

Absent == [t |-> "absent"]

\* A JSON object with the given fileContent and fileName, a key left out
\* when its value is Absent.
Doc(fc, fn) ==
    LET given == [fileContent |-> fc, fileName |-> fn] IN
    JObj([k \in {x \in DOMAIN given : given[x] # Absent} |-> given[k]])

TxtShort == Bytes("txt", <<Run("x", ShortLen)>>)
TxtBlank == Bytes("txt", <<Run(" ", ShortLen)>>)
\* Texts of PromptLimit - 1 + k characters.
TxtLong(k) == Bytes("txt", <<Run("x", PromptLimit - 1) \o Run("y", k)>>)
PdfTwoPages == Bytes("pdf", <<Run("x", ShortLen), <<>>>>)
PdfNoText == Bytes("pdf", << <<>> >>)
DocxOnePara == Bytes("docx", <<Run("x", ShortLen)>>)
Garbage == Bytes("bin", <<>>)

Contents ==
    {EmptyFile, TxtShort, TxtBlank, PdfTwoPages, PdfNoText, DocxOnePara, Garbage}
    \cup {TxtLong(k) : k \in 0..Overflow}

EmptyString == JB64(TRUE, TRUE, EmptyFile)
BadBase64 == JB64(FALSE, FALSE, EmptyFile)
B64(c) == JB64(FALSE, TRUE, c)

FileContents ==
    {Absent, None, JNum(5), EmptyString, BadBase64} \cup {B64(c) : c \in Contents}

NameTxt == JName(<<"a", ".txt">>)
NamePdf == JName(<<"b", ".PDF">>)
NameXlsx == JName(<<"c", ".xlsx">>)
NameDocx == JName(<<"d", ".Docx">>)
NameNoExt == JName(<<"e">>)

FileNames ==
    {Absent, None, JNum(7), JName(<<>>), NameTxt, NamePdf, NameXlsx, NameDocx, NameNoExt}

\* request.get_json() raises for a body that is not JSON.
Malformed == [t |-> "malformed"]

AnalyzeBodies ==
    {Malformed, None, JObj(<<>>), JArr(<<1>>)}
    \cup {Doc(fc, fn) : fc \in FileContents, fn \in FileNames}

\* The entries a documents array is made of.
BatchDocs ==
    { JNum(5),
      Doc(Absent, NameTxt),
      Doc(B64(TxtShort), Absent),
      Doc(BadBase64, NameTxt),
      Doc(B64(TxtShort), NameTxt),
      Doc(B64(TxtBlank), NameTxt),
      Doc(B64(TxtLong(Overflow)), NameTxt),
      Doc(B64(PdfTwoPages), NamePdf),
      Doc(B64(PdfTwoPages), NameXlsx),
      Doc(B64(Garbage), NameDocx) }

RECURSIVE SeqsUpTo(_, _)
\* The sequences over S of length at most k.
SeqsUpTo(S, k) ==
    IF k = 0 THEN {<<>>}
    ELSE LET shorter == SeqsUpTo(S, k - 1) IN
         shorter \cup {Append(q, x) : q \in {r \in shorter : Len(r) = k - 1}, x \in S}

BatchBodies ==
    {Malformed, None, JObj(<<>>)}
    \cup {JObj([documents |-> JArr(d)]) : d \in SeqsUpTo(BatchDocs, MaxDocs)}

\* What the model can answer: the call raising, text that is not JSON, a
\* JSON array, a JSON object, and a JSON object that itself carries a
\* metadata key.
Replies ==
    { [t |-> "raise"], [t |-> "text"], [t |-> "arr"],
      [t |-> "obj", o |-> [document_type |-> 7, severity_level |-> 8]],
      [t |-> "obj", o |-> [document_type |-> 7, document_length |-> 9]] }

\* datetime.now()
Times == {1, 2}

IoOutcomes == {"ok", "create_fail", "write_fail"}
UnlinkOutcomes == {"ok", "fail"}

\* ------------------------------------------------------------ file system
\* files is the set of temporary files on disk, by path; tmpFile is what the
\* file at tmpPath holds (the code reads no other file).

\* The name tempfile picks: one no existing file has.
FreshPath == CHOOSE p \in 1..(MaxFiles + 1) :
                 p \notin files /\ \A q \in 1..(p - 1) : q \in files

\* Files left behind by earlier documents.
Leaked == files \ {tmpPath}

\* An I/O fault is injected only while fewer than MaxFiles files have leaked.
FaultAllowed(o, leaked) == o # "ok" => Cardinality(leaked) < MaxFiles

\* tempfile.NamedTemporaryFile(delete=False, suffix=sfx) then
\* temp_file.write(data): a failed write leaves the file, truncated.
StagedFile(sfx, data, io) ==
    [suffix |-> sfx, data |-> IF io = "ok" THEN data ELSE Garbage]

\* os.unlink(path): on failure the file stays.
Unlinked(p, ul) == IF ul = "ok" THEN files \ {p} ELSE files

\* --------------------------------------------------------------- responses

Response(status, body) == [status |-> status, body |-> body]
ErrorBody(msg) == [success |-> FALSE, error |-> msg]
InternalError(e) == Response(500, ErrorBody(<<"Internal server error", e>>))

Init ==
    /\ pc = "idle"
    /\ req = None
    /\ files = {}
    /\ tmpPath = 0
    /\ tmpFile = None
    /\ text = <<>>
    /\ prompt = <<>>
    /\ llmReply = None
    /\ analysis = None
    /\ results = <<>>
    /\ idx = 0
    /\ resp = None
    /\ steps = <<>>
    /\ log = <<>>

\* The handler returns `r`.
Return(r) == pc' = "responded" /\ resp' = r

\* No temporary file was created for this document.
NoFile == UNCHANGED files /\ tmpPath' = 0 /\ tmpFile' = None

\* A plausible slip: the staged file is unlinked before the call is made.
CallLLM_FileReleased(t, at) ==
    /\ pc' = at
    /\ text' = t
    /\ prompt' = PromptText(t)
    /\ steps' = steps \o <<"extract", "analyze">>
    /\ files' = files \ {tmpPath}
    /\ UNCHANGED resp

\* analyzer.analyze_document(document_text) is entered: the prompt is built
\* from the extracted text and client.messages.create is called; the handler
\* waits at `at`, inside its try block, the staged file untouched.
CallLLM(t, at) ==
    /\ pc' = at
    /\ text' = t
    /\ prompt' = PromptText(t)
    /\ steps' = steps \o <<"extract", "analyze">>
    /\ UNCHANGED <<files, resp>>

\* ---------------------------------------------------------- POST /analyze

\* Lines 175-206: the body, the two fields, the base64 decoding, the staging.
AnalyzeBegin(body, io) ==
    /\ req' = [route |-> "/analyze", body |-> body]
    /\ text' = <<>> /\ prompt' = <<>> /\ llmReply' = None
    /\ results' = <<>> /\ idx' = 0 /\ log' = <<>> /\ analysis' = None
    /\ IF body.t = "malformed"
       THEN Return(InternalError("BadRequest")) /\ NoFile /\ steps' = <<>>
       ELSE IF ~Truthy(body)
       THEN /\ Return(Response(400, ErrorBody(<<"No JSON data provided">>)))
            /\ NoFile /\ steps' = <<>>
       ELSE IF body.t # "obj"
       THEN Return(InternalError("AttributeError")) /\ NoFile /\ steps' = <<>>
       ELSE
       LET fc == Get(body.o, "fileContent")
           fn == Get(body.o, "fileName")
           dec == b64decode(fc)
           sfx == PathSuffix(fn)
       IN
       IF ~Truthy(fc) \/ ~Truthy(fn)
       THEN /\ Return(Response(400, ErrorBody(<<"fileContent and fileName are required">>)))
            /\ NoFile /\ steps' = <<"fields">>
       ELSE IF ~dec.ok
       THEN /\ Return(Response(400, ErrorBody(<<"Invalid base64 content", dec.err>>)))
            /\ NoFile /\ steps' = <<"fields", "decode">>
       ELSE IF ~sfx.ok
       THEN Return(InternalError(sfx.err)) /\ NoFile /\ steps' = <<"fields", "decode">>
       ELSE IF io = "create_fail"
       THEN Return(InternalError("OSError")) /\ NoFile /\ steps' = <<"fields", "decode">>
       ELSE /\ files' = files \cup {FreshPath}
            /\ tmpPath' = FreshPath
            /\ tmpFile' = StagedFile(sfx.v, dec.v, io)
            /\ steps' = <<"fields", "decode", "stage">>
            /\ IF io = "write_fail"
               THEN Return(InternalError("OSError"))
               ELSE pc' = "a_extract" /\ resp' = None

\* Lines 208-216 and, when extraction ends the request, 230-242.
AnalyzeExtract(ul) ==
    LET r == parse_file(tmpFile) IN
    /\ UNCHANGED <<req, tmpPath, tmpFile, llmReply, analysis, results, idx, log>>
    /\ IF ~r.ok
       THEN /\ files' = Unlinked(tmpPath, ul)
            /\ Return(InternalError(r.err))
            /\ steps' = Append(steps, "extract")
            /\ UNCHANGED <<text, prompt>>
       ELSE IF IsBlank(r.v)
       THEN /\ files' = Unlinked(tmpPath, ul)
            /\ Return(Response(400,
                   ErrorBody(<<"No text could be extracted from the document">>)))
            /\ steps' = Append(steps, "extract")
            /\ text' = r.v
            /\ UNCHANGED prompt
       ELSE CallLLM(r.v, "a_llm")

\* Lines 219-242: the LLM call ends, the result is shaped, the file unlinked.
AnalyzeLLM(reply, now, at, ul) ==
    LET a == analyzer_analyze_document(text, reply, now) IN
    /\ UNCHANGED <<req, tmpPath, tmpFile, text, prompt, results, idx, steps, log>>
    /\ llmReply' = reply /\ analysis' = a
    /\ files' = Unlinked(tmpPath, ul)
    /\ IF a.ok
       THEN Return(Response(200,
                [success |-> TRUE, analysis |-> a.v, processedAt |-> at,
                 fileName |-> Get(req.body.o, "fileName"),
                 documentLength |-> TextLen(text)]))
       ELSE Return(InternalError(a.err))

analyze_document ==
    \/ /\ pc = "idle"
       /\ \E body \in AnalyzeBodies, io \in IoOutcomes :
            FaultAllowed(io, files) /\ AnalyzeBegin(body, io)
    \/ /\ pc = "a_extract"
       /\ \E ul \in UnlinkOutcomes :
            FaultAllowed(ul, Leaked) /\ AnalyzeExtract(ul)
    \/ /\ pc = "a_llm"
       /\ \E reply \in Replies, now \in Times, at \in Times, ul \in UnlinkOutcomes :
            at >= now /\ FaultAllowed(ul, Leaked) /\ AnalyzeLLM(reply, now, at, ul)

\* ----------------------------------------------------- POST /batch-analyze

Documents == req.body.o.documents.a

\* Lines 283-288: the per-entry handler appends an error record.  doc.get
\* itself raises for an entry that is not an object, out of the loop.
EntryError(doc, e) ==
    [success |-> FALSE,
     fileName |-> IF "fileName" \in DOMAIN doc.o THEN doc.o.fileName
                  ELSE JName(<<"unknown">>),
     error |-> <<e>>]

\* Lines 290-295.
BatchResponse(docs, res, at) ==
    Response(200, [success |-> TRUE, totalDocuments |-> Len(docs),
                   results |-> res, processedAt |-> at])

\* The loop moves to the next entry, or ends and the handler returns.
NextEntry(res, at) ==
    /\ results' = res
    /\ IF idx < Len(Documents)
       THEN pc' = "b_entry" /\ idx' = idx + 1 /\ resp' = None
       ELSE Return(BatchResponse(Documents, res, at)) /\ idx' = idx

\* What became of entry idx: which of its steps succeeded.
Logged(dec, ext, ana) ==
    log' = Append(log, [decoded |-> dec, extracted |-> ext, analyzed |-> ana])

\* Lines 247-257.
BatchBegin(body) ==
    /\ req' = [route |-> "/batch-analyze", body |-> body]
    /\ text' = <<>> /\ prompt' = <<>> /\ llmReply' = None
    /\ results' = <<>> /\ steps' = <<>> /\ log' = <<>> /\ analysis' = None
    /\ NoFile
    /\ IF body.t = "malformed"
       THEN Return(InternalError("BadRequest")) /\ idx' = 0
       ELSE IF body.t # "obj"
       THEN Return(InternalError("AttributeError")) /\ idx' = 0
       ELSE IF ~Truthy(IF "documents" \in DOMAIN body.o THEN body.o.documents
                       ELSE JArr(<<>>))
       THEN Return(Response(400, ErrorBody(<<"No documents provided">>))) /\ idx' = 0
       ELSE pc' = "b_entry" /\ idx' = 1 /\ resp' = None

\* Lines 259-267 for documents[idx], and 283-288 when one of them raises.
BatchEntry(io, at) ==
    LET doc == Documents[idx]
        dec == IF doc.t # "obj" THEN Raise("TypeError")
               ELSE IF "fileContent" \notin DOMAIN doc.o THEN Raise("KeyError")
               ELSE b64decode(doc.o.fileContent)
        sfx == IF "fileName" \notin DOMAIN doc.o THEN Raise("KeyError")
               ELSE PathSuffix(doc.o.fileName)
        failed(e) == /\ NextEntry(Append(results, EntryError(doc, e)), at)
                     /\ Logged(dec.ok, FALSE, FALSE)
    IN
    /\ UNCHANGED req
    /\ text' = <<>> /\ prompt' = <<>> /\ llmReply' = None /\ analysis' = None
    /\ IF doc.t # "obj"
       THEN /\ Return(InternalError("AttributeError"))
            /\ NoFile /\ steps' = <<"decode">>
            /\ UNCHANGED <<results, idx, log>>
       ELSE IF ~dec.ok
       THEN failed(dec.err) /\ NoFile /\ steps' = <<"decode">>
       ELSE IF ~sfx.ok
       THEN failed(sfx.err) /\ NoFile /\ steps' = <<"decode">>
       ELSE IF io = "create_fail"
       THEN failed("OSError") /\ NoFile /\ steps' = <<"decode">>
       ELSE /\ files' = files \cup {FreshPath}
            /\ tmpPath' = FreshPath
            /\ tmpFile' = StagedFile(sfx.v, dec.v, io)
            /\ steps' = <<"decode", "stage">>
            /\ IF io = "write_fail"
               THEN failed("OSError")
               ELSE pc' = "b_extract" /\ UNCHANGED <<results, idx, resp, log>>

\* Line 271 and, when parse_file raises, 280-288.  A failing os.unlink
\* raises in its turn, and that is the exception the handler sees.
BatchExtract(ul, at) ==
    LET r == parse_file(tmpFile)
        doc == Documents[idx]
    IN
    /\ UNCHANGED <<req, tmpPath, tmpFile, llmReply, analysis>>
    /\ IF ~r.ok
       THEN /\ files' = Unlinked(tmpPath, ul)
            /\ NextEntry(Append(results,
                   EntryError(doc, IF ul = "ok" THEN r.err ELSE "OSError")), at)
            /\ Logged(TRUE, FALSE, FALSE)
            /\ steps' = Append(steps, "extract")
            /\ UNCHANGED <<text, prompt>>
       ELSE CallLLM(r.v, "b_llm") /\ UNCHANGED <<results, idx, log>>

\* Lines 272-288: the LLM call ends, the entry's record is appended, the
\* file unlinked; an exception of the unlink appends an error record too.
BatchLLM(reply, now, ul, at) ==
    LET a == analyzer_analyze_document(text, reply, now)
        doc == Documents[idx]
        done == IF a.ok
                THEN Append(results, [success |-> TRUE, fileName |-> doc.o.fileName,
                                      analysis |-> a.v])
                ELSE results
    IN
    /\ UNCHANGED <<req, tmpPath, tmpFile, text, prompt, steps>>
    /\ llmReply' = reply /\ analysis' = a
    /\ files' = Unlinked(tmpPath, ul)
    /\ Logged(TRUE, TRUE, a.ok)
    /\ IF ul # "ok" THEN NextEntry(Append(done, EntryError(doc, "OSError")), at)
       ELSE IF ~a.ok THEN NextEntry(Append(done, EntryError(doc, a.err)), at)
       ELSE NextEntry(done, at)

batch_analyze ==
    \/ /\ pc = "idle"
       /\ \E body \in BatchBodies : BatchBegin(body)
    \/ /\ pc = "b_entry"
       /\ \E io \in IoOutcomes, at \in Times :
            FaultAllowed(io, files) /\ BatchEntry(io, at)
    \/ /\ pc = "b_extract"
       /\ \E ul \in UnlinkOutcomes, at \in Times :
            FaultAllowed(ul, Leaked) /\ BatchExtract(ul, at)
    \/ /\ pc = "b_llm"
       /\ \E reply \in Replies, now \in Times, ul \in UnlinkOutcomes, at \in Times :
            at >= now /\ FaultAllowed(ul, Leaked) /\ BatchLLM(reply, now, ul, at)

\* ------------------------------------------- the other routes and handlers

\* A request no handler above serves: it stages nothing and analyzes nothing.
Plain(r, response) ==
    /\ pc = "idle"
    /\ req' = r
    /\ Return(response)
    /\ NoFile
    /\ UNCHANGED <<text, prompt, llmReply, analysis, results, idx, steps, log>>

\* GET /
home ==
    \E now \in Times :
        Plain([route |-> "/"], Response(200, [html |-> "status page", timestamp |-> now]))

\* GET /health
health_check ==
    \E now \in Times :
        Plain([route |-> "/health"],
              Response(200, [status |-> "healthy", timestamp |-> now,
                             service |-> "Regulatory Document Analyzer",
                             version |-> "1.0.0"]))

\* GET or POST /test.  On POST the body is echoed; request.get_json() raises
\* BadRequest for a body that is not JSON, which Flask answers itself.
test_endpoint ==
    \E now \in Times, m \in {"GET", "POST"}, body \in {Malformed, None, JObj(<<>>)} :
        Plain([route |-> "/test", method |-> m, body |-> body],
              IF m = "GET"
              THEN Response(200, [message |-> "Test endpoint is working",
                                  method |-> "GET", timestamp |-> now])
              ELSE IF body = Malformed
              THEN Response(400, [html |-> "Bad Request"])
              ELSE Response(200, [message |-> "Test endpoint received POST data",
                                  data |-> body, timestamp |-> now]))

\* The 404 handler: any path that is no route.
not_found ==
    Plain([route |-> "/unknown-path"],
          Response(404, [error |-> <<"Endpoint not found">>,
                         available_endpoints |->
                             <<"/analyze", "/batch-analyze", "/health", "/test">>]))

\* The 500 handler's response.  Every exception of the two analysis handlers
\* is caught by the handler itself and the other views raise none, so no
\* request reaches it.
internal_error ==
    Response(500, [error |-> <<"Internal server error">>,
                   message |-> "Something went wrong on the server"])

\* The response is sent and the request context torn down: nothing but the
\* disk survives a request.
Teardown ==
    /\ pc = "responded"
    /\ pc' = "idle"
    /\ req' = None /\ resp' = None
    /\ tmpPath' = 0 /\ tmpFile' = None
    /\ text' = <<>> /\ prompt' = <<>> /\ llmReply' = None /\ analysis' = None
    /\ results' = <<>> /\ idx' = 0 /\ steps' = <<>> /\ log' = <<>>
    /\ UNCHANGED files

Next ==
    \/ analyze_document
    \/ batch_analyze
    \/ home
    \/ health_check
    \/ test_endpoint
    \/ not_found
    \/ Teardown

Spec == Init /\ [][Next]_vars

\* ------------------------------------------------------------------ claims

OnAnalyze == pc = "responded" /\ req.route = "/analyze"
OnBatch == pc = "responded" /\ req.route = "/batch-analyze"

\* The request body is a JSON object with at least one key.
ObjectBody == req.body.t = "obj" /\ DOMAIN req.body.o # {}

Min(a, b) == IF a < b THEN a ELSE b

AnalyzeSteps == <<"fields", "decode", "stage", "extract", "analyze">>
IsPrefixSeq(p, q) == Len(p) <= Len(q) /\ SubSeq(q, 1, Len(p)) = p

RECURSIVE IsPrefix(_, _)
\* Text p is the first TextLen(p) characters of text t.
IsPrefix(p, t) ==
    IF p = <<>> THEN TRUE
    ELSE IF t = <<>> \/ p[1].ch # t[1].ch THEN FALSE
    ELSE IF p[1].n = t[1].n THEN IsPrefix(Tail(p), Tail(t))
    ELSE p[1].n < t[1].n /\ Len(p) = 1

\* A field that is absent, null or the empty string.
FieldMissing(o, k) == k \notin DOMAIN o \/ o[k] \in {None, EmptyString, JName(<<>>)}
FieldsMissing == FieldMissing(req.body.o, "fileContent") \/ FieldMissing(req.body.o, "fileName")
\* A fileContent that base64 cannot decode.
Undecodable(v) == v = BadBase64 \/ v.t = "num"
Supported == {".pdf", ".docx", ".txt"}
AllWhitespace(t) == \A i \in 1..Len(t) : t[i].ch \in {" ", "\n"}
Meta == {"analysis_timestamp", "document_length"}

MsgRequired == <<"fileContent and fileName are required">>
MsgNoText == <<"No text could be extracted from the document">>

\* C1: a /batch-analyze request with a non-empty documents array is answered
\* 200 with success true whatever its entries are; no entry aborts the loop.
C1_BatchNeverFails ==
    (OnBatch /\ ObjectBody /\ "documents" \in DOMAIN req.body.o
            /\ req.body.o.documents.a # <<>>)
        => /\ resp.status = 200
           /\ resp.body.success = TRUE
           /\ idx = Len(Documents)

\* C2: a 200 response of /batch-analyze holds one result per document, in
\* input order, with the document's fileName, and success exactly when the
\* document's decoding, extraction and analysis all succeeded.
C2_OneResultPerDocument ==
    (OnBatch /\ resp.status = 200)
        => /\ Len(resp.body.results) = Len(Documents)
           /\ resp.body.totalDocuments = Len(Documents)
           /\ \A i \in 1..Len(Documents) :
                /\ resp.body.results[i].fileName =
                       (IF "fileName" \in DOMAIN Documents[i].o
                        THEN Documents[i].o.fileName ELSE JName(<<"unknown">>))
                /\ resp.body.results[i].success =
                       (log[i].decoded /\ log[i].extracted /\ log[i].analyzed)

C4_ValidationErrorsAre400 ==
    (OnAnalyze /\ ObjectBody) =>
        /\ FieldsMissing => resp.status = 400
        /\ (~FieldsMissing /\ Undecodable(req.body.o.fileContent)) => resp.status = 400
        /\ (Len(steps) >= 4 /\ Lower(tmpFile.suffix) \notin Supported)
              => resp.status = 400
        /\ (Len(steps) >= 4 /\ parse_file(tmpFile).ok
                /\ AllWhitespace(parse_file(tmpFile).v))
              => resp.status = 400

\* C5: every error response (the 400s and 500s of /analyze and
\* /batch-analyze, the 404, the 500 handler's) is a JSON object with success
\* false and an error string.
C5_ErrorsCarrySuccessFalse ==
    (pc = "responded" /\ resp.status >= 400
            /\ req.route \in {"/analyze", "/batch-analyze", "/unknown-path"})
        => /\ "success" \in DOMAIN resp.body
           /\ resp.body.success = FALSE
           /\ "error" \in DOMAIN resp.body

\* C6: once /analyze has responded, or the batch loop has moved past an
\* entry, the temporary file created for that document no longer exists.
C6_NoTempFileLeft ==
    (OnAnalyze \/ OnBatch \/ (pc = "b_entry" /\ idx > 1)) => tmpPath \notin files

C8_NoAnalysisOfEmptyText ==
    pc \in {"a_llm", "b_llm"} => ~AllWhitespace(text)

\* C9: the prompt holds exactly the first min(len(text), 15000) characters
\* of the text, while document_length and documentLength are len(text).
C9_PromptTruncated ==
    /\ pc \in {"a_llm", "b_llm"} =>
         /\ TextLen(prompt) = Min(TextLen(text), PromptLimit)
         /\ IsPrefix(prompt, text)
    /\ (pc \in {"responded", "b_entry"} /\ analysis # None /\ analysis.ok) =>
         analysis.v.document_length = TextLen(text)
    /\ (OnAnalyze /\ resp.status = 200) =>
         /\ resp.body.documentLength = TextLen(text)
         /\ resp.body.analysis.document_length = TextLen(text)

\* C9's case: a text longer than the limit was analyzed and answered.
C9_Witness ==
    /\ OnAnalyze /\ resp.status = 200
    /\ TextLen(text) > PromptLimit
    /\ TextLen(prompt) = PromptLimit
    /\ resp.body.documentLength = TextLen(text)

\* C10 as claimed: for a JSON object from the model, the result is that
\* object with exactly two keys added and every key and value of the model's
\* object unchanged; for output that is not well-formed, analyze fails.
C10_TwoKeysAdded ==
    (pc \in {"responded", "b_entry"} /\ analysis # None) =>
        /\ llmReply.t = "obj" =>
             /\ analysis.ok
             /\ DOMAIN analysis.v = DOMAIN llmReply.o \cup Meta
             /\ Cardinality(DOMAIN analysis.v) = Cardinality(DOMAIN llmReply.o) + 2
             /\ \A k \in DOMAIN llmReply.o : analysis.v[k] = llmReply.o[k]
        /\ llmReply.t = "text" => ~analysis.ok

\* C10 as amended: the result's keys are the model's keys and the two
\* metadata keys; every key of the model's object other than the two
\* metadata keys keeps its value, and the two metadata keys hold the
\* timestamp and the text's length, overwriting what the model sent under
\* those names; for output that is not well-formed, analyze fails and the
\* response carries no analysis.
C10_MetadataSet ==
    /\ (pc \in {"responded", "b_entry"} /\ analysis # None) =>
        /\ llmReply.t = "obj" =>
             /\ analysis.ok
             /\ DOMAIN analysis.v = DOMAIN llmReply.o \cup Meta
             /\ \A k \in DOMAIN llmReply.o \ Meta : analysis.v[k] = llmReply.o[k]
             /\ analysis.v.document_length = TextLen(text)
             /\ analysis.v.analysis_timestamp \in Times
        /\ llmReply.t = "text" => ~analysis.ok
    /\ (OnAnalyze /\ analysis # None) =>
        IF llmReply.t = "obj"
        THEN resp.status = 200 /\ resp.body.analysis = analysis.v
        ELSE resp.status = 500 /\ "analysis" \notin DOMAIN resp.body

\* C10's case: the model's object itself carries a metadata key.
C10_Witness ==
    /\ OnAnalyze /\ analysis # None /\ analysis.ok
    /\ "document_length" \in DOMAIN llmReply.o
    /\ llmReply.o.document_length # analysis.v.document_length

====
